---- MODULE Spec2Model ----
(***************************************************************************)
(* Race Insights dashboard (app.py): the update_graphs callback, the UI    *)
(* properties it reads (slider, dropdown, bar-chart clickData) and the     *)
(* four outputs it returns (two figures, two control values).              *)
(*                                                                         *)
(* Python values: None of the dropdown is the string None below (no        *)
(* title-cased country equals it); None of clickData is the record PyNone; *)
(* dash.no_update is the record no_update; a returned control value v is   *)
(* the record [value |-> v].  Floats: the bar annotation's y is            *)
(* elevation_gain * 1.1, kept as ten times its value (y_x10).              *)
(***************************************************************************)
EXTENDS Integers, Sequences, FiniteSets, TLC

\* ---------------------------------------------------------------- bounds
MaxRecords == 12      \* largest dataset (rows of df after dropna)
MaxOffset  == 1       \* datasets start at catalogue row 0 .. MaxOffset

\* ------------------------------------------------------ program constants
TopN      == 10       \* .head(10)
Threshold == 14000    \* elevation_gain > 14000

None     == "<None>"
PyNone   == [none |-> TRUE]
no_update == [no_update |-> TRUE]

\* ------------------------------------------------ inputs and the dataset
Races     == <<"A", "B", "C">>
Dists     == <<10, 100, 50>>
Elevs     == <<500, 15000, 9000, 16000, 14000>>
Countries == <<"Usa", "France", "Usa", "">>

\* Row k (0-based) of the catalogue the datasets are cut from.  Rows 0..2 are
\* the documented scenario A(10,500,Usa), B(100,15000,France), C(50,9000,Usa).
Row(k) ==
    [ idx            |-> k,
      race           |-> Races[(k % 3) + 1],
      distance       |-> Dists[((k + (k \div 3)) % 3) + 1],
      elevation_gain |-> Elevs[(k % 5) + 1],
      country        |-> Countries[(k % 4) + 1],
      aid_stations   |-> (k % 2) + 1 ]

Dataset(n, off) == [i \in 1..n |-> Row(i - 1 + off)]

\* Sizes of the datasets.  A dataset is never empty: building the layout takes
\* int(df['distance'].max()), which fails on an empty frame.
DatasetSizes == 1..MaxRecords

SliderVals  == {0, 50, 100}
CountryVals == {None, "", "Usa", "France"}
ClickVals   == {Races[i] : i \in 1..Len(Races)}
TieOrders   == {"original", "reversed"}

VARIABLES
    df,                    \* the DataFrame loaded at import
    ties,                  \* how this build's quicksort orders equal keys
    distance_filter,       \* RangeSlider value
    country_filter,        \* Dropdown value
    clickData,             \* bar-elevation.clickData
    pc,                    \* "layout" before the page's first callback
    triggered_id,          \* update_graphs: local triggered_id
    distance_range,        \* update_graphs: local after the reset branch
    selected_country,      \* update_graphs: local after the reset branch
    filtered_df,           \* update_graphs: local
    top_elevation,         \* update_graphs: local
    fig1, fig2,            \* returned figures
    reset_country_value,   \* returned dropdown value
    reset_distance_value,  \* returned slider value
    first,                 \* history: what the first callback returned
    ref                    \* history: one recorded plain invocation

vars == << df, ties, distance_filter, country_filter, clickData, pc,
           triggered_id, distance_range, selected_country, filtered_df,
           top_elevation, fig1, fig2, reset_country_value,
           reset_distance_value, first, ref >>

\* ------------------------------------------------------- pandas helpers
RECURSIVE SeqMin(_), SeqMax(_)
SeqMin(s) == IF Len(s) = 1 THEN s[1]
             ELSE LET m == SeqMin(Tail(s)) IN IF s[1] < m THEN s[1] ELSE m
SeqMax(s) == IF Len(s) = 1 THEN s[1]
             ELSE LET m == SeqMax(Tail(s)) IN IF s[1] > m THEN s[1] ELSE m

Column(frame, f) == [i \in 1..Len(frame) |-> frame[i][f]]

\* df['distance'].min(), df['distance'].max()
DistanceMin == SeqMin(Column(df, "distance"))
DistanceMax == SeqMax(Column(df, "distance"))

\* Faulty variant (sensitivity of C1): the right end excluded
betweenExclusive(x, left, right) == left <= x /\ x < right

\* Series.between(left, right): inclusive on both sides
between(x, left, right) == left <= x /\ x <= right

\* frame[mask]: the rows whose mask is true, in frame order
RECURSIVE Mask(_, _)
Mask(frame, m) ==
    IF frame = << >> THEN << >>
    ELSE IF m[1] THEN << frame[1] >> \o Mask(Tail(frame), Tail(m))
         ELSE Mask(Tail(frame), Tail(m))

\* Python truthiness of the dropdown value: None and '' are falsy
Truthy(v) == v # None /\ v # ""

\* ------------------------------------------------- update_graphs, by step
\* Faulty variant (sensitivity of C4): the reset leaves selected_country alone
ResetKeepsCountry(trig, dr, sc, cd) ==
    IF trig = "reset-button"
    THEN [ distance_range       |-> << DistanceMin, DistanceMax >>,
           selected_country     |-> sc,
           clickData            |-> PyNone,
           reset_country_value  |-> [value |-> None],
           reset_distance_value |-> [value |-> << DistanceMin, DistanceMax >>] ]
    ELSE [ distance_range       |-> dr,
           selected_country     |-> sc,
           clickData            |-> cd,
           reset_country_value  |-> no_update,
           reset_distance_value |-> no_update ]

\* Faulty variant (sensitivity of C7): the reset does not return the slider
\* value
ResetKeepsSlider(trig, dr, sc, cd) ==
    IF trig = "reset-button"
    THEN [ distance_range       |-> << DistanceMin, DistanceMax >>,
           selected_country     |-> None,
           clickData            |-> PyNone,
           reset_country_value  |-> [value |-> None],
           reset_distance_value |-> no_update ]
    ELSE [ distance_range       |-> dr,
           selected_country     |-> sc,
           clickData            |-> cd,
           reset_country_value  |-> no_update,
           reset_distance_value |-> no_update ]

\* lines 111-121: the defaults and the reset branch
ResetBranch(trig, dr, sc, cd) ==
    IF trig = "reset-button"
    THEN [ distance_range       |-> << DistanceMin, DistanceMax >>,
           selected_country     |-> None,
           clickData            |-> PyNone,
           reset_country_value  |-> [value |-> None],
           reset_distance_value |-> [value |-> << DistanceMin, DistanceMax >>] ]
    ELSE [ distance_range       |-> dr,
           selected_country     |-> sc,
           clickData            |-> cd,
           reset_country_value  |-> no_update,
           reset_distance_value |-> no_update ]

\* line 123: df[df['distance'].between(lo, hi)]
ByDistance(dr) ==
    Mask(df, [i \in 1..Len(df) |-> between(df[i].distance, dr[1], dr[2])])

\* Faulty variant (sensitivity of C6): with no country passed in, the country
\* of the invocation before is used
ByCountrySticky(frame, sc) ==
    LET c == IF Truthy(sc) THEN sc ELSE selected_country IN
    IF Truthy(c)
    THEN Mask(frame, [i \in 1..Len(frame) |-> frame[i].country = c])
    ELSE frame

\* lines 124-125: if selected_country: filtered_df[country == selected_country]
ByCountry(frame, sc) ==
    IF Truthy(sc)
    THEN Mask(frame, [i \in 1..Len(frame) |-> frame[i].country = sc])
    ELSE frame

FilteredDf(dr, sc) == ByCountry(ByDistance(dr), sc)

\* line 128: sort_values(by='elevation_gain', ascending=False) with the default
\* kind='quicksort', which is not stable: rows with equal elevation_gain come
\* out in an order the build decides (ties), the same on every call.  Two such
\* orders are modelled: dataset order, and its reverse.
TieBefore(a, b) ==
    IF ties = "original" THEN a.idx < b.idx ELSE a.idx > b.idx

\* Faulty variant (sensitivity of C2): ascending order
ComesBeforeAscending(a, b) ==
    \/ a.elevation_gain < b.elevation_gain
    \/ a.elevation_gain = b.elevation_gain /\ TieBefore(a, b)

\* line 128: the order of two rows after the descending sort
ComesBefore(a, b) ==
    \/ a.elevation_gain > b.elevation_gain
    \/ a.elevation_gain = b.elevation_gain /\ TieBefore(a, b)

RECURSIVE Insert(_, _), sort_values(_)
Insert(sorted, row) ==
    IF sorted = << >> THEN << row >>
    ELSE IF ComesBefore(row, sorted[1]) THEN << row >> \o sorted
         ELSE << sorted[1] >> \o Insert(Tail(sorted), row)

sort_values(frame) ==
    IF frame = << >> THEN << >>
    ELSE Insert(sort_values(Tail(frame)), frame[1])

\* line 128: .head(10)
head(frame, n) == IF Len(frame) <= n THEN frame ELSE SubSeq(frame, 1, n)

TopElevation(filtered) == head(sort_values(filtered), TopN)

\* Faulty variant (sensitivity of C10): top_elevation.iloc[0] read without the
\* emptiness test of line 141
BarAnnotationsUnguarded(top) ==
    IF top # << >>
    THEN << [ x     |-> top[1].race,
              y_x10 |-> top[1].elevation_gain * 11,
              text  |-> "Highest Elevation" ] >>
    ELSE << [ raised |-> "IndexError" ] >>

\* lines 141-152: the 'Highest Elevation' annotation on the first bar
BarAnnotations(top) ==
    IF top # << >>
    THEN << [ x     |-> top[1].race,
              y_x10 |-> top[1].elevation_gain * 11,
              text  |-> "Highest Elevation" ] >>
    ELSE << >>

\* lines 129-152: the bar chart
Fig1(top) ==
    [ x           |-> Column(top, "race"),
      y           |-> Column(top, "elevation_gain"),
      text        |-> Column(top, "elevation_gain"),
      annotations |-> BarAnnotations(top) ]

\* Faulty variant (sensitivity of C5): highlight only when the click triggered
HighlightedOnClickOnly(trig, cd) ==
    cd # PyNone /\ "points" \in DOMAIN cd /\ trig = "bar-elevation"

\* line 171: clickData and 'points' in clickData and triggered_id != 'reset-button'
Highlighted(trig, cd) ==
    cd # PyNone /\ "points" \in DOMAIN cd /\ trig # "reset-button"

\* line 178: [i for i, race in enumerate(filtered_df['race']) if race == clicked_race]
RECURSIVE Matches(_, _, _)
Matches(races, clicked_race, i) ==
    IF races = << >> THEN << >>
    ELSE (IF races[1] = clicked_race THEN << i >> ELSE << >>)
         \o Matches(Tail(races), clicked_race, i + 1)

\* Faulty variant (sensitivity of C8): only the first point of that name
SelectedPointsFirstOnly(filtered, clicked_race) ==
    LET m == Matches(Column(filtered, "race"), clicked_race, 0)
    IN  IF m = << >> THEN m ELSE << m[1] >>

\* lines 172-181: selectedpoints for the clicked bar
SelectedPoints(filtered, clicked_race) ==
    Matches(Column(filtered, "race"), clicked_race, 0)

\* Faulty variant (sensitivity of C9): 14000 itself counts
IsOutlierInclusive(r) == r.elevation_gain >= Threshold

\* line 184: elevation_gain > 14000
IsOutlier(r) == r.elevation_gain > Threshold

\* lines 184-195: the 'Extreme Gain!' annotation at the first outlier
Outlier(filtered) ==
    Mask(filtered, [i \in 1..Len(filtered) |-> IsOutlier(filtered[i])])

ScatterAnnotations(filtered) ==
    LET outlier == Outlier(filtered) IN
    IF outlier # << >>
    THEN << [ x    |-> outlier[1].distance,
              y    |-> outlier[1].elevation_gain,
              text |-> "Extreme Gain!" ] >>
    ELSE << >>

\* lines 155-195: the scatter chart
Fig2(filtered, trig, cd) ==
    [ x              |-> Column(filtered, "distance"),
      y              |-> Column(filtered, "elevation_gain"),
      size           |-> Column(filtered, "aid_stations"),
      hover_name     |-> Column(filtered, "race"),
      country        |-> Column(filtered, "country"),
      highlight      |-> Highlighted(trig, cd),
      selectedpoints |-> IF Highlighted(trig, cd)
                         THEN SelectedPoints(filtered, cd.points[1].x)
                         ELSE << >>,
      annotations    |-> ScatterAnnotations(filtered) ]

\* ------------------------------------------------------------ the machine
EmptyFig == [x |-> << >>, y |-> << >>, annotations |-> << >>]

Init ==
    /\ df \in {Dataset(n, off) : n \in DatasetSizes, off \in 0..MaxOffset}
    /\ ties \in TieOrders
    /\ distance_filter =
         << SeqMin(Column(df, "distance")), SeqMax(Column(df, "distance")) >>
    /\ country_filter = None
    /\ clickData = PyNone
    /\ pc = "layout"
    /\ triggered_id = None
    /\ distance_range = << >>
    /\ selected_country = None
    /\ filtered_df = << >>
    /\ top_elevation = << >>
    /\ fig1 = EmptyFig
    /\ fig2 = EmptyFig
    /\ reset_country_value = no_update
    /\ reset_distance_value = no_update
    /\ first = PyNone
    /\ ref = PyNone

\* A plain invocation: not a reset, and no click data delivered
Plain(trig, cd) == trig # "reset-button" /\ cd = PyNone

\* lines 97-197: one run of the callback, triggered by trig (line 109:
\* triggered_id, None on the page's first call) with the input values dr, sc,
\* cd, and the renderer applying what it returns: a returned control value
\* replaces the control's value, no_update leaves it as the user set it.
\* rec: whether this invocation may be recorded in ref.
update_graphs(trig, dr, sc, cd, rec) ==
    LET l == ResetBranch(trig, dr, sc, cd) IN
    /\ triggered_id' = trig
    /\ distance_range' = l.distance_range
    /\ selected_country' = l.selected_country
    /\ filtered_df' = FilteredDf(l.distance_range, l.selected_country)
    /\ top_elevation' = TopElevation(filtered_df')
    /\ fig1' = Fig1(top_elevation')
    /\ fig2' = Fig2(filtered_df', trig, l.clickData)
    /\ reset_country_value' = l.reset_country_value
    /\ reset_distance_value' = l.reset_distance_value
    /\ country_filter' = IF l.reset_country_value = no_update
                         THEN sc ELSE l.reset_country_value.value
    /\ distance_filter' = IF l.reset_distance_value = no_update
                          THEN dr ELSE l.reset_distance_value.value
    /\ clickData' = cd
    /\ ref' = IF rec /\ ref = PyNone /\ Plain(trig, cd)
               THEN [ df |-> df, triggered_id |-> trig,
                      distance_range |-> dr, selected_country |-> sc,
                      returned |-> << fig1', fig2', reset_country_value',
                                    reset_distance_value' >> ]
               ELSE ref
    /\ UNCHANGED << df, ties >>

\* The page loads: dash calls the callback once with nothing triggered
InitialCall(rec) ==
    /\ pc = "layout"
    /\ pc' = "ready"
    /\ update_graphs(None, distance_filter, country_filter, clickData, rec)
    /\ first' = [fig1 |-> fig1', fig2 |-> fig2']

\* The user moves the range slider
DistanceChange(rec) ==
    /\ pc = "ready"
    /\ \E lo \in SliderVals, hi \in SliderVals :
         /\ lo <= hi
         /\ << lo, hi >> # distance_filter
         /\ update_graphs("distance-filter", << lo, hi >>, country_filter, clickData, rec)
    /\ UNCHANGED << pc, first >>

\* The user picks or clears a country
CountryChange(rec) ==
    /\ pc = "ready"
    /\ \E c \in CountryVals :
         /\ c # country_filter
         /\ update_graphs("country-filter", distance_filter, c, clickData, rec)
    /\ UNCHANGED << pc, first >>

\* The user presses Reset Filters (n_clicks changes; its value is not read)
ResetClick(rec) ==
    /\ pc = "ready"
    /\ update_graphs("reset-button", distance_filter, country_filter, clickData, rec)
    /\ UNCHANGED << pc, first >>

\* The user clicks a bar: clickData becomes the clicked point
BarClick(rec) ==
    /\ pc = "ready"
    /\ \E race \in ClickVals :
         LET cd == [points |-> << [x |-> race] >>] IN
         /\ cd # clickData
         /\ update_graphs("bar-elevation", distance_filter, country_filter, cd, rec)
    /\ UNCHANGED << pc, first >>

Next ==
    \/ InitialCall(FALSE)
    \/ DistanceChange(FALSE)
    \/ CountryChange(FALSE)
    \/ ResetClick(FALSE)
    \/ BarClick(FALSE)

Spec == Init /\ [][Next]_vars

\* The same machine on the largest dataset, where any one plain invocation may
\* be recorded in ref, to be compared with the later ones.
InitPure == Init /\ df = Dataset(MaxRecords, MaxOffset)

NextPure ==
    \E rec \in BOOLEAN :
        \/ InitialCall(rec)
        \/ DistanceChange(rec)
        \/ CountryChange(rec)
        \/ ResetClick(rec)
        \/ BarClick(rec)

SpecPure == InitPure /\ [][NextPure]_vars

\* ------------------------------------------------------------- properties
Ready == pc = "ready"

\* The dropdown counts as unset when its value is falsy (line 124): None, or ''
Unset(c) == c = None \/ c = ""

Qualifies(r, lo, hi, c) ==
    /\ lo <= r.distance
    /\ r.distance <= hi
    /\ Unset(c) \/ r.country = c

InFrame(r, frame) == \E j \in 1..Len(frame) : frame[j] = r

C2_TopTen ==
    Ready =>
        LET n == Len(filtered_df)
            m == Len(top_elevation)
        IN  /\ m = (IF n < TopN THEN n ELSE TopN)
            /\ \A i \in 1..m : InFrame(top_elevation[i], filtered_df)
            /\ \A i, k \in 1..m :
                   i < k => top_elevation[i].idx # top_elevation[k].idx
            /\ \A i \in 1..(m - 1) :
                   top_elevation[i].elevation_gain
                       >= top_elevation[i + 1].elevation_gain
            /\ \A j \in 1..n :
                   ~InFrame(filtered_df[j], top_elevation) =>
                       \A i \in 1..m :
                           filtered_df[j].elevation_gain
                               <= top_elevation[i].elevation_gain
            /\ fig1.x = [i \in 1..m |-> top_elevation[i].race]
            /\ fig1.y = [i \in 1..m |-> top_elevation[i].elevation_gain]

\* C2 witness: more than ten rows pass the filter and a row strictly below the
\* tenth bar is cut.
C2_Witness ==
    /\ Ready
    /\ Len(filtered_df) > TopN
    /\ Len(top_elevation) = TopN
    /\ \E j \in 1..Len(filtered_df) :
           filtered_df[j].elevation_gain < top_elevation[TopN].elevation_gain
    /\ \E i \in 1..(TopN - 1) :
           top_elevation[i].elevation_gain = top_elevation[i + 1].elevation_gain

\* C3: rows of filtered_df with equal elevation_gain keep their dataset order in
\* top_elevation, and when a tie straddles the tenth place the rows earlier in
\* the dataset are the ones kept.
C3_StableTies ==
    Ready =>
        /\ \A i, k \in 1..Len(top_elevation) :
               (i < k /\ top_elevation[i].elevation_gain
                             = top_elevation[k].elevation_gain)
                   => top_elevation[i].idx < top_elevation[k].idx
        /\ \A j \in 1..Len(filtered_df) :
               ~InFrame(filtered_df[j], top_elevation) =>
                   \A i \in 1..Len(top_elevation) :
                       top_elevation[i].elevation_gain
                               = filtered_df[j].elevation_gain
                           => top_elevation[i].idx < filtered_df[j].idx

\* C4: a reset invocation returns the dropdown value None and the slider value
\* [least distance of df, greatest distance of df], and both figures are those
\* of the page's first call (full range, no country, no click data: every row,
\* no highlight), whatever values were passed in.
C4_Reset ==
    (Ready /\ triggered_id = "reset-button") =>
        /\ reset_country_value = [value |-> None]
        /\ reset_distance_value # no_update
        /\ LET v == reset_distance_value.value IN
              /\ \A i \in 1..Len(df) :
                     v[1] <= df[i].distance /\ df[i].distance <= v[2]
              /\ \E i \in 1..Len(df) : df[i].distance = v[1]
              /\ \E i \in 1..Len(df) : df[i].distance = v[2]
        /\ fig1 = first.fig1
        /\ fig2 = first.fig2
        /\ Len(fig2.x) = Len(df)
        /\ ~fig2.highlight

\* C4 witness: a reset pressed when click data was there to be passed in, on a
\* dataset whose first chart has an outlier annotation and ten bars.
C4_Witness ==
    /\ Ready /\ triggered_id = "reset-button"
    /\ clickData # PyNone
    /\ Len(fig1.x) = TopN
    /\ fig2.annotations # << >>

PointsNamed(R) == {i - 1 : i \in {j \in 1..Len(filtered_df) : filtered_df[j].race = R}}

C6_Pure ==
    (Ready /\ ref # PyNone) =>
        /\ df = ref.df
        /\ ( /\ Plain(triggered_id, clickData)
             /\ distance_filter = ref.distance_range
             /\ country_filter = ref.selected_country )
           => << fig1, fig2, reset_country_value, reset_distance_value >>
                  = ref.returned

\* C6 witness: the recorded invocation and a later one, triggered by another
\* input, with the same slider and dropdown values, a country selected.
C6_Witness ==
    /\ Ready /\ ref # PyNone
    /\ Plain(triggered_id, clickData)
    /\ distance_filter = ref.distance_range
    /\ country_filter = ref.selected_country
    /\ triggered_id # ref.triggered_id
    /\ ~Unset(country_filter)
    /\ fig2.x # << >>

\* C7: once an invocation's outputs are applied, the slider and the dropdown
\* hold the distance_range and selected_country the charts were computed from;
\* a reset returns [min, max] and None for them and every other invocation
\* returns no_update for both.
C7_ControlsMatchCharts ==
    Ready =>
        /\ distance_filter = distance_range
        /\ country_filter = selected_country
        /\ triggered_id = "reset-button" =>
               /\ reset_distance_value = [value |-> distance_filter]
               /\ reset_country_value = [value |-> None]
               /\ country_filter = None
               /\ \A i \in 1..Len(df) :
                      /\ distance_filter[1] <= df[i].distance
                      /\ df[i].distance <= distance_filter[2]
        /\ triggered_id # "reset-button" =>
               /\ reset_distance_value = no_update
               /\ reset_country_value = no_update

\* C7 witness: a reset that put the slider on a range the rows fill, with all
\* rows charted.
C7_Witness ==
    /\ Ready /\ triggered_id = "reset-button"
    /\ reset_distance_value = [value |-> distance_filter]
    /\ distance_filter[1] < distance_filter[2]
    /\ Len(filtered_df) = Len(df)

\* C8, the selection: after an invocation triggered by a click on the bar named
\* R the selected points are exactly the positions of filtered_df named R, in
\* increasing order.
C8_Selection ==
    (Ready /\ triggered_id = "bar-elevation") =>
        LET sel == fig2.selectedpoints IN
        /\ fig2.highlight
        /\ {sel[k] : k \in 1..Len(sel)} = PointsNamed(clickData.points[1].x)
        /\ \A k \in 1..(Len(sel) - 1) : sel[k] < sel[k + 1]

\* C8, the frame: a bar click leaves filtered_df, top_elevation, the bar chart,
\* the scatter's points and annotations as they were for the same slider and
\* dropdown values, and returns no_update for both controls.
C8_Frame ==
    (pc = "ready" /\ triggered_id' = "bar-elevation") =>
        /\ distance_range' = distance_range
        /\ selected_country' = selected_country
        /\ filtered_df' = filtered_df
        /\ top_elevation' = top_elevation
        /\ fig1' = fig1
        /\ [fig2' EXCEPT !.highlight = FALSE, !.selectedpoints = << >>]
               = [fig2 EXCEPT !.highlight = FALSE, !.selectedpoints = << >>]
        /\ reset_country_value' = no_update
        /\ reset_distance_value' = no_update
        /\ distance_filter' = distance_filter
        /\ country_filter' = country_filter

\* C8: in an invocation triggered by a click on the bar named R the selected
\* scatter points are exactly those named R, all others are unselected, and
\* the click changes nothing else.
C8_ClickHighlight == [](C8_Selection) /\ [][C8_Frame]_vars

\* C8 witness: a click on a name that several charted rows share and others
\* do not.
C8_Witness ==
    /\ Ready /\ triggered_id = "bar-elevation"
    /\ Len(fig2.selectedpoints) >= 2
    /\ Len(fig2.selectedpoints) < Len(filtered_df)
    /\ ~Unset(country_filter)

\* C9: the scatter chart has the 'Extreme Gain!' annotation exactly when some
\* row of filtered_df has elevation_gain > 14000, has at most one, and it sits
\* at the distance and elevation_gain of the first such row of filtered_df.
C9_ExtremeGain ==
    Ready =>
        LET out == {j \in 1..Len(filtered_df) :
                        filtered_df[j].elevation_gain > Threshold}
        IN  /\ Len(fig2.annotations) <= 1
            /\ (fig2.annotations # << >>) <=> (out # {})
            /\ out # {} =>
                   LET j == CHOOSE j \in out : \A k \in out : j <= k IN
                   fig2.annotations =
                       << [ x    |-> filtered_df[j].distance,
                            y    |-> filtered_df[j].elevation_gain,
                            text |-> "Extreme Gain!" ] >>

\* C9 witness: the annotated row is not the one with the greatest gain, and a
\* row with exactly 14000 comes before it.
C9_Witness ==
    /\ Ready
    /\ fig2.annotations # << >>
    /\ \E j \in 1..Len(filtered_df) :
           filtered_df[j].elevation_gain > fig2.annotations[1].y
    /\ \E j \in 1..Len(filtered_df) :
           /\ filtered_df[j].elevation_gain = Threshold
           /\ \A k \in 1..j : filtered_df[k].elevation_gain <= Threshold

\* C10: a non-reset invocation whose inputs select no row (a country no row
\* has, or a range no distance falls in) returns a bar chart without bars or
\* annotation, a scatter chart without points or annotation and no_update for
\* both controls; and whenever top_elevation has a row the bar chart has the
\* one 'Highest Elevation' annotation, on its first bar, which has the greatest
\* elevation_gain of filtered_df.
C10_EmptyAndHighest ==
    Ready =>
        /\ ( /\ triggered_id # "reset-button"
             /\ \/ /\ ~Unset(country_filter)
                   /\ \A i \in 1..Len(df) : df[i].country # country_filter
                \/ \A i \in 1..Len(df) :
                       \/ df[i].distance < distance_filter[1]
                       \/ df[i].distance > distance_filter[2] )
           => /\ fig1.x = << >> /\ fig1.y = << >>
              /\ fig1.annotations = << >>
              /\ fig2.x = << >> /\ fig2.y = << >>
              /\ fig2.annotations = << >>
              /\ reset_country_value = no_update
              /\ reset_distance_value = no_update
        /\ filtered_df = << >> =>
               /\ fig1.x = << >> /\ fig1.annotations = << >>
               /\ fig2.x = << >> /\ fig2.annotations = << >>
        /\ top_elevation # << >> =>
               /\ fig1.annotations =
                      << [ x     |-> fig1.x[1],
                           y_x10 |-> fig1.y[1] * 11,
                           text  |-> "Highest Elevation" ] >>
               /\ \A j \in 1..Len(filtered_df) :
                      filtered_df[j].elevation_gain <= fig1.y[1]

\* C10 witness: a country no row of df has, selected over a range that does
\* hold rows.
C10_Witness ==
    /\ Ready /\ triggered_id = "country-filter"
    /\ ~Unset(country_filter)
    /\ \A i \in 1..Len(df) : df[i].country # country_filter
    /\ \E i \in 1..Len(df) :
           /\ distance_filter[1] <= df[i].distance
           /\ df[i].distance <= distance_filter[2]
    /\ fig1.x = << >>

====
